---- MODULE Spec2Model ----
(***************************************************************************)
(* The azurerm_automation_datetime_variable resource: its value codec      *)
(* (RFC-3339 text <-> "\/Date(<ms>)\/" wrapper) and its create-or-update,  *)
(* read and delete handlers, run against the automation variable client.   *)
(*                                                                         *)
(* Numbers.  A count of nanoseconds or milliseconds since the Unix epoch   *)
(* is far wider than 32 bits, the width of TLC's integers, so every such   *)
(* count is a mixed-radix numeral [days, sod, sub]: days, second of the day*)
(* (0..86399) and the sub-second part (nanoseconds 0..999999999, or        *)
(* milliseconds 0..999), always in floor-normal form (sod and sub are      *)
(* non-negative, days carries the sign).  The numeral denotes              *)
(* (days*86400 + sod)*10^9 + sub nanoseconds (or *10^3 + sub milliseconds).*)
(* int64 arithmetic is carried out on these numerals, wrap-around          *)
(* included.                                                               *)
(*                                                                         *)
(* Text.  A timestamp string is the record of its fields, in the order     *)
(* they are written: [year, month, day, hour, minute, second, frac, zone], *)
(* frac the sequence of fractional-second digits as written (empty when    *)
(* the string has no fraction) and zone either Zulu (the letter Z) or a    *)
(* numeric offset [sign, hh, mm].  Two strings are equal exactly when      *)
(* their records are.  EmptyText is the empty string.                      *)
(***************************************************************************)
EXTENDS Integers, Sequences, FiniteSets, TLC

\* ------------------------------------------------------------------ numerals

SecPerDay == 86400
NanosPerSec == 1000000000
NanosPerMilli == 1000000
MillisPerSec == 1000

\* floor-normal form of days/seconds/sub-second units, `unit` sub-units a second
Norm(whole, sec, part, unit) ==
    LET s2 == sec + (part \div unit)
    IN  [days |-> whole + (s2 \div SecPerDay), sod |-> s2 % SecPerDay, sub |-> part % unit]

NsAdd(a, b) == Norm(a.days + b.days, a.sod + b.sod, a.sub + b.sub, NanosPerSec)

NsSub(a, b) == Norm(a.days - b.days, a.sod - b.sod, a.sub - b.sub, NanosPerSec)

NumLess(a, b) ==
    \/ a.days < b.days
    \/ a.days = b.days /\ a.sod < b.sod
    \/ a.days = b.days /\ a.sod = b.sod /\ a.sub < b.sub

NumZero == [days |-> 0, sod |-> 0, sub |-> 0]

\* 2^63 ns = 9223372036.854775808 s = 106751 d + 85636 s + 854775808 ns
TwoTo63 == [days |-> 106751, sod |-> 85636, sub |-> 854775808]

\* 2^64 ns = 18446744073.709551616 s = 213503 d + 84873 s + 709551616 ns
TwoTo64 == [days |-> 213503, sod |-> 84873, sub |-> 709551616]

\* the value an int64 holds after an arithmetic result n: n modulo 2^64, in
\* [-2^63, 2^63)
RECURSIVE WrapInt64(_)
WrapInt64(n) ==
    IF ~NumLess(n, TwoTo63) THEN WrapInt64(NsSub(n, TwoTo64))
    ELSE IF NumLess(n, NsSub(NumZero, TwoTo63)) THEN WrapInt64(NsAdd(n, TwoTo64))
    ELSE n

\* Go's integer division n / 1000000 of an int64 nanosecond count: the quotient
\* truncated toward zero, as a millisecond numeral
DivMillion(n) ==
    LET q == n.sub \div NanosPerMilli
        exact == (n.sub % NanosPerMilli) = 0
    IN  IF n.days >= 0 \/ exact
        THEN [days |-> n.days, sod |-> n.sod, sub |-> q]
        ELSE Norm(n.days, n.sod, q + 1, MillisPerSec)

\* ------------------------------------------------------------------ calendar

IsLeap(y) == (y % 4 = 0) /\ ((y % 100 # 0) \/ (y % 400 = 0))

DaysIn(y, m) ==
    IF m = 2 THEN (IF IsLeap(y) THEN 29 ELSE 28)
    ELSE IF m \in {4, 6, 9, 11} THEN 30 ELSE 31

\* days from 1970-01-01 to the proleptic Gregorian date y-m-d
DaysFromCivil(y, m, d) ==
    LET yy == IF m <= 2 THEN y - 1 ELSE y
        era == yy \div 400
        yoe == yy - era * 400
        mp == IF m > 2 THEN m - 3 ELSE m + 9
        doy == ((153 * mp + 2) \div 5) + d - 1
        doe == yoe * 365 + (yoe \div 4) - (yoe \div 100) + doy
    IN  era * 146097 + doe - 719468

\* the proleptic Gregorian date of day z counted from 1970-01-01
CivilFromDays(z) ==
    LET zz == z + 719468
        era == zz \div 146097
        doe == zz - era * 146097
        yoe == (doe - (doe \div 1460) + (doe \div 36524) - (doe \div 146096)) \div 365
        doy == doe - (365 * yoe + (yoe \div 4) - (yoe \div 100))
        mp == (5 * doy + 2) \div 153
        d == doy - ((153 * mp + 2) \div 5) + 1
        m == IF mp < 10 THEN mp + 3 ELSE mp - 9
        y == yoe + era * 400
    IN  [year |-> IF m <= 2 THEN y + 1 ELSE y, month |-> m, day |-> d]

\* ------------------------------------------------------------------ text

Zulu == [utc |-> TRUE, sign |-> 1, hh |-> 0, mm |-> 0]

Offset(sign, hh, mm) == [utc |-> FALSE, sign |-> sign, hh |-> hh, mm |-> mm]

Stamp(y, mo, d, h, mi, s, f, z) ==
    [year |-> y, month |-> mo, day |-> d, hour |-> h, minute |-> mi, second |-> s,
     frac |-> f, zone |-> z, empty |-> FALSE]

EmptyText == [empty |-> TRUE]

\* the digits ds read as a fraction of a second, in nanoseconds (nine digits,
\* the missing ones zero, any further ones dropped)
RECURSIVE FracNanos(_, _)
FracNanos(ds, weight) ==
    IF ds = <<>> \/ weight = 0 THEN 0
    ELSE Head(ds) * weight + FracNanos(Tail(ds), weight \div 10)

\* ds without its trailing zeros
RECURSIVE TrimZeros(_)
TrimZeros(ds) ==
    IF ds # <<>> /\ ds[Len(ds)] = 0 THEN TrimZeros(SubSeq(ds, 1, Len(ds) - 1)) ELSE ds

\* ------------------------------------------------------------------ codec

\* a parse that takes any non-empty string of the right shape, the day of the
\* month unchecked
ParseOKLenient(v) == ~v.empty

\* time.Parse(time.RFC3339, v): whether v is accepted
ParseOK(v) ==
    /\ ~v.empty
    /\ v.year \in 0..9999
    /\ v.month \in 1..12
    /\ v.day \in 1..DaysIn(v.year, v.month)
    /\ v.hour \in 0..23
    /\ v.minute \in 0..59
    /\ v.second \in 0..59

\* time.Parse(time.RFC3339, v) of an accepted v: the instant, as nanoseconds
\* since the Unix epoch (the zone offset is taken off the wall-clock fields)
ParseInstant(v) ==
    Norm(DaysFromCivil(v.year, v.month, v.day),
         v.hour * 3600 + v.minute * 60 + v.second
           - (IF v.zone.utc THEN 0 ELSE v.zone.sign * (v.zone.hh * 3600 + v.zone.mm * 60)),
         FracNanos(v.frac, 100000000),
         NanosPerSec)

\* vTime.UnixNano(): sec*1e9 + nsec computed in int64
UnixNano(t) == WrapInt64(t)

\* the wrapper token "\/Date(<ms>)\/" carrying the integer ms
DateToken(millis) == [kind |-> "Date", ms |-> millis]

\* a stored value that is not a date wrapper (a bare number, say)
OtherToken == [kind |-> "Other"]

\* fmt.Sprintf("\"\\/Date(%d)\\/\"", vTime.UnixNano()/1000000)
EncodeValue(v) == DateToken(DivMillion(UnixNano(ParseInstant(v))))

\* azure.ParseAzureRmAutomationVariableValue("azurerm_automation_datetime_variable", tok):
\* the wrapper's millisecond integer taken out and rebuilt as a UTC time; any
\* other shape is an error
ParseAzureRmAutomationVariableValue(tok) ==
    IF tok.kind = "Date"
    THEN [ok |-> TRUE,
          time |-> [days |-> tok.ms.days, sod |-> tok.ms.sod, sub |-> tok.ms.sub * NanosPerMilli]]
    ELSE [ok |-> FALSE, time |-> NumZero]

\* layout ".000": always three fractional digits
FracLayout000(ns) ==
    LET ms == ns \div NanosPerMilli
    IN  <<ms \div 100, (ms \div 10) % 10, ms % 10>>

\* the first three fractional digits of a nanosecond part, as layout ".999"
\* prints them: trailing zeros dropped, nothing at all when they are all zero
FracLayout999(ns) ==
    LET ms == ns \div NanosPerMilli
    IN  TrimZeros(<<ms \div 100, (ms \div 10) % 10, ms % 10>>)

\* value.(time.Time).Format("2006-01-02T15:04:05.999Z") of a UTC time
FormatValue(t) ==
    LET c == CivilFromDays(t.days)
    IN  Stamp(c.year, c.month, c.day,
              t.sod \div 3600, (t.sod \div 60) % 60, t.sod % 60,
              FracLayout999(t.sub), Zulu)

\* ------------------------------------------------------------------ state

\* the resource instances the provider manages, and the variables' names
Res == {"r1", "r2"}

Names == {"v1", "v2"}

\* a key that names the same variable whatever the configured name
KeyOneName(n) == [resourceGroup |-> "rg", accountName |-> "acct", name |-> "v1"]

\* the key of the client's calls: (resourceGroup, accountName, name)
Key(n) == [resourceGroup |-> "rg", accountName |-> "acct", name |-> n]

RemoteKeys == {Key(n) : n \in Names}

\* the canonical identifier the service gives the object at key k, by segment
CanonicalId(k) ==
    <<"subscriptions", "sub", "resourceGroups", k.resourceGroup,
      "providers", "Microsoft.Automation",
      "automationAccounts", k.accountName, "variables", k.name>>

\* the identifier "" of a resource that is not tracked
NoId == <<>>

Absent == [present |-> FALSE]

\* a stored variable: automation.VariableProperties
Object(description, isEncrypted, value) ==
    [present |-> TRUE, description |-> description, isEncrypted |-> isEncrypted,
     value |-> value]

\* schema.ResourceData of this resource: the id and the six schema fields, an
\* unset string reading as "" and an unset bool as false
Data(id, k, description, encrypted, value) ==
    [name |-> k.name, description |-> description, value |-> value, id |-> id,
     encrypted |-> encrypted, resource_group_name |-> k.resourceGroup,
     automation_account_name |-> k.accountName]

EmptyData ==
    [name |-> "", description |-> "", value |-> EmptyText, id |-> NoId, encrypted |-> FALSE,
     resource_group_name |-> "", automation_account_name |-> ""]

VARIABLES
    requireResourcesToBeImported,  \* the provider's import guard switch
    remote,      \* the service's store: key -> stored variable or Absent
    key,         \* resource -> the key its configuration names (ForceNew fields)
    d,           \* resource -> its ResourceData
    pc,          \* resource -> where its running handler stands
    result,      \* resource -> the handler running or last run, and what it returned
    calls,       \* resource -> the client calls that handler has issued, in order
    resp,        \* resource -> what the handler's latest Get answered
    written,     \* resource -> the configuration of its last successful CreateOrUpdate call
    codec        \* the value codec applied on its own to one timestamp

vars == <<requireResourcesToBeImported, remote, key, d, pc, result, calls, resp,
          written, codec>>

mainVars == <<requireResourcesToBeImported, remote, key, d, pc, result, calls, resp,
              written>>

\* ------------------------------------------------------------------ inputs

\* "2023-01-02T15:04:05Z"
T2023 == Stamp(2023, 1, 2, 15, 4, 5, <<>>, Zulu)

\* "2023-01-02T16:04:05.120+01:00"
T2023Offset == Stamp(2023, 1, 2, 16, 4, 5, <<1, 2, 0>>, Offset(1, 1, 0))

\* "2300-01-01T00:00:00Z"
T2300 == Stamp(2300, 1, 1, 0, 0, 0, <<>>, Zulu)

\* "2023-02-30T00:00:00Z", which names no day
TFeb30 == Stamp(2023, 2, 30, 0, 0, 0, <<>>, Zulu)

\* the values a configuration may give: three RFC-3339 strings, a string
\* that is not one, and the empty (or omitted) value
ConfigValues == {T2023, T2023Offset, T2300, TFeb30, EmptyText}

Descriptions == {"", "d"}

Config(description, encrypted, value) ==
    [description |-> description, value |-> value, encrypted |-> encrypted]

Configs == {Config(ds, e, v) : ds \in Descriptions, e \in BOOLEAN, v \in ConfigValues}

\* what another writer may store at a key: a date, a value of another kind,
\* an encrypted value
ForeignObjects ==
    {Object("foreign", FALSE, EncodeValue(T2023)), Object("foreign", FALSE, OtherToken),
     Object("foreign", TRUE, OtherToken)}

\* ------------------------------------------------------------------ client

\* a Get that found the object: the echoed id (NoId when the service echoes
\* none), the name and the properties; the value is withheld when encrypted
Found(k, id) ==
    [kind |-> "found", name |-> k.name, description |-> remote[k].description,
     isEncrypted |-> remote[k].isEncrypted,
     value |-> IF remote[k].isEncrypted THEN [kind |-> "Nil"] ELSE remote[k].value,
     id |-> id]

NotFound ==
    [kind |-> "notfound", name |-> "", description |-> "", isEncrypted |-> FALSE,
     value |-> [kind |-> "Nil"], id |-> NoId]

Failed ==
    [kind |-> "error", name |-> "", description |-> "", isEncrypted |-> FALSE,
     value |-> [kind |-> "Nil"], id |-> NoId]

NoResp ==
    [kind |-> "none", name |-> "", description |-> "", isEncrypted |-> FALSE,
     value |-> [kind |-> "Nil"], id |-> NoId]

\* client.Get(ctx, resourceGroup, accountName, name): the answers it may give
GetResponses(k) ==
    IF k \in RemoteKeys /\ remote[k].present
    THEN {Found(k, CanonicalId(k)), Found(k, NoId), Failed}
    ELSE {NotFound, Failed}

\* a test that takes every response for not-found
ResponseWasNotFoundAlways(rs) == TRUE

\* utils.ResponseWasNotFound(resp.Response)
ResponseWasNotFound(rs) == rs.kind = "notfound"

\* the segment that follows `label` in an identifier, "" when there is none
SegmentAfter(id, label) ==
    LET at == {i \in 1..(Len(id) - 1) : i % 2 = 1 /\ id[i] = label}
    IN  IF at = {} THEN "" ELSE id[(CHOOSE i \in at : \A j \in at : i <= j) + 1]

\* parseAzureResourceID(d.Id()) with the reads of id.ResourceGroup,
\* id.Path["automationAccounts"] and id.Path["variables"] that follow it:
\* the key named by a slash-segmented identifier, refused when a required
\* segment is missing
ParseResourceId(id) ==
    LET k == [resourceGroup |-> SegmentAfter(id, "resourceGroups"),
              accountName |-> SegmentAfter(id, "automationAccounts"),
              name |-> SegmentAfter(id, "variables")]
    IN  [ok |-> k.resourceGroup # "" /\ k.accountName # "" /\ k.name # "", key |-> k]

\* a handler that goes on after parseAzureResourceID has returned an error
ParseFailedIgnored(p) == FALSE

\* lines 120-123 and 160-163: the handler returns the parse's error
ParseFailed(p) == ~p.ok

\* ------------------------------------------------------------------ handlers

\* what `result` records of a handler: which one runs (op), what it returned
\* (err, "running" until it returns, "nil" for no error), the id an
\* AlreadyExists error names, and whether it was entered as the update of a
\* variable the resource manages
Running(op, managed) ==
    [op |-> op, managed |-> managed, err |-> "running", existing |-> NoId]

Returned(r, err) == [result[r] EXCEPT !.err = err]

\* what `written` records of a resource: the configuration its last successful
\* CreateOrUpdate call stored (valid once there is one), whether the store
\* still holds it untouched by anyone else (clean), whether the last
\* create-or-update handler to return was the one that stored it and returned
\* no error (settled), and whether that call stored again, over its own
\* untouched object, the configuration of the create-or-update before it (again)
NeverWritten ==
    [description |-> "", value |-> EmptyText, encrypted |-> FALSE, valid |-> FALSE,
     clean |-> FALSE, settled |-> FALSE, again |-> FALSE]

\* r's data hold the configuration that r's last create-or-update stored and
\* returned with, and the store still holds that object untouched
SameSpec(r) ==
    /\ written[r].valid /\ written[r].clean /\ written[r].settled
    /\ d[r].description = written[r].description
    /\ d[r].encrypted = written[r].encrypted
    /\ d[r].value = written[r].value

\* the create-or-update handler of r returns err
Settle(r, err) == [written EXCEPT ![r].settled = (err = "nil")]

\* the written configurations of the resources at key k are no longer what the
\* store holds there: someone else has written or deleted since
Disturb(k, except) ==
    [q \in Res |-> IF key[q] = k /\ q # except
                   THEN [written[q] EXCEPT !.clean = FALSE] ELSE written[q]]

\* parameters that leave the description out
WriteParametersNoDescription(description, encrypted, value) == Object("", encrypted, value)

\* a guard that never turns a create away
GuardRejectsNever(rs) == FALSE

\* line 78: the guard turns the create away unless the probe said not-found
GuardRejects(rs) == ~ResponseWasNotFound(rs)

\* Create and Update are one function: the handler is entered with the
\* configuration c laid over the resource's data (d.Get reads the configured
\* name, description, encrypted and value), as a create when the resource has
\* no id yet and as an update when it has one
CreateUpdateBegin(r, c) ==
    /\ pc[r] = "idle"
    /\ d' = [d EXCEPT ![r] = Data(d[r].id, key[r], c.description, c.encrypted, c.value)]
    /\ result' = [result EXCEPT ![r] =
           Running(IF d[r].id = NoId THEN "create" ELSE "update",
                   d[r].id # NoId /\ written[r].valid /\ written[r].clean
                     /\ written[r].settled)]
    /\ calls' = [calls EXCEPT ![r] = <<>>]
    /\ resp' = [resp EXCEPT ![r] = NoResp]
    /\ pc' = [pc EXCEPT ![r] = IF requireResourcesToBeImported THEN "probe" ELSE "write"]
    /\ UNCHANGED <<requireResourcesToBeImported, remote, key, written, codec>>

\* lines 71-81: the guard's probing Get
CreateUpdateProbe(r) ==
    /\ pc[r] = "probe"
    /\ \E rs \in GetResponses(key[r]) :
         /\ resp' = [resp EXCEPT ![r] = rs]
         /\ calls' = [calls EXCEPT ![r] = Append(@, "Get")]
         /\ IF rs.kind = "error"
            THEN /\ result' = [result EXCEPT ![r] = Returned(r, "CheckExistingFailed")]
                 /\ pc' = [pc EXCEPT ![r] = "idle"]
                 /\ written' = Settle(r, "CheckExistingFailed")
            ELSE IF GuardRejects(rs)
            THEN \* *resp.ID of a response without id is a nil dereference
                 /\ result' = [result EXCEPT ![r] =
                        IF rs.id = NoId THEN Returned(r, "panic")
                        ELSE [Returned(r, "AlreadyExists") EXCEPT !.existing = rs.id]]
                 /\ pc' = [pc EXCEPT ![r] = "idle"]
                 /\ written' = Settle(r, "AlreadyExists")
            ELSE /\ result' = result
                 /\ pc' = [pc EXCEPT ![r] = "write"]
                 /\ written' = written
    /\ UNCHANGED <<requireResourcesToBeImported, remote, key, d, codec>>

\* the parameters of line 91-98 as the service stores them
WriteParameters(description, encrypted, value) == Object(description, encrypted, value)

\* lines 83-102: encode the value, then the CreateOrUpdate call (whose answer,
\* "written" or "error", is kept in resp)
CreateUpdateWrite(r) ==
    /\ pc[r] = "write"
    /\ IF ~ParseOK(d[r].value)
       THEN /\ result' = [result EXCEPT ![r] = Returned(r, "InvalidTimeFormat")]
            /\ pc' = [pc EXCEPT ![r] = "idle"]
            /\ written' = Settle(r, "InvalidTimeFormat")
            /\ UNCHANGED <<remote, calls, resp>>
       ELSE /\ calls' = [calls EXCEPT ![r] = Append(@, "CreateOrUpdate")]
            /\ \/ /\ resp' = [resp EXCEPT ![r] = [NoResp EXCEPT !.kind = "written"]]
                  /\ remote' = [remote EXCEPT ![key[r]] =
                         WriteParameters(d[r].description, d[r].encrypted,
                                         EncodeValue(d[r].value))]
                  /\ written' = [Disturb(key[r], r) EXCEPT ![r] =
                         [description |-> d[r].description, value |-> d[r].value,
                          encrypted |-> d[r].encrypted,
                          valid |-> TRUE, clean |-> TRUE,
                          settled |-> FALSE, again |-> SameSpec(r)]]
                  /\ pc' = [pc EXCEPT ![r] = "get"]
                  /\ result' = result
               \/ /\ resp' = [resp EXCEPT ![r] = Failed]
                  /\ result' = [result EXCEPT ![r] = Returned(r, "CreateFailed")]
                  /\ pc' = [pc EXCEPT ![r] = "idle"]
                  /\ written' = Settle(r, "CreateFailed")
                  /\ remote' = remote
    /\ UNCHANGED <<requireResourcesToBeImported, key, d, codec>>

\* a handler that takes whatever id the Get echoed, none included
IdMissingIgnored(rs) == FALSE

\* line 108: resp.ID == nil
IdMissing(rs) == rs.id = NoId

\* lines 104-111: the Get that fetches the id, and d.SetId
CreateUpdateGet(r) ==
    /\ pc[r] = "get"
    /\ \E rs \in GetResponses(key[r]) :
         /\ resp' = [resp EXCEPT ![r] = rs]
         /\ calls' = [calls EXCEPT ![r] = Append(@, "Get")]
         /\ IF rs.kind # "found"
            THEN /\ result' = [result EXCEPT ![r] = Returned(r, "RetrieveFailed")]
                 /\ pc' = [pc EXCEPT ![r] = "idle"]
                 /\ written' = Settle(r, "RetrieveFailed")
                 /\ d' = d
            ELSE IF IdMissing(rs)
            THEN /\ result' = [result EXCEPT ![r] = Returned(r, "IncompleteWrite")]
                 /\ pc' = [pc EXCEPT ![r] = "idle"]
                 /\ written' = Settle(r, "IncompleteWrite")
                 /\ d' = d
            ELSE /\ result' = result
                 /\ pc' = [pc EXCEPT ![r] = "read"]
                 /\ written' = written
                 /\ d' = [d EXCEPT ![r].id = rs.id]
    /\ UNCHANGED <<requireResourcesToBeImported, remote, key, codec>>

\* a Read that keeps the id of an object that is gone
RemovedDataKeepsId(dr) == dr

\* lines 131-133: the object is gone, d.SetId("") and nothing else
RemovedData(dr) == [dr EXCEPT !.id = NoId]

\* a Read that drops the id when its Get fails
FailedDataLosesId(dr) == [dr EXCEPT !.id = NoId]

\* line 135: the Get failed, the error is returned and the data are left alone
FailedData(dr) == dr

\* a Read that blanks the value of an encrypted variable
EncryptedDataBlanked(keyed) == [keyed EXCEPT !.value = EmptyText]

\* lines 144-150 when the variable is encrypted: the value is neither decoded
\* nor set, the data keep the value they held
EncryptedData(keyed) == keyed

\* a Read that never sets the description
KeyedNoDescription(dr, rs, k) ==
    [dr EXCEPT !.name = rs.name,
               !.resource_group_name = k.resourceGroup,
               !.automation_account_name = k.accountName,
               !.encrypted = rs.isEncrypted]

\* lines 138-143: d.Set of name, resource_group_name, automation_account_name,
\* description and encrypted from the Get's answer and the parsed id
Keyed(dr, rs, k) ==
    [dr EXCEPT !.name = rs.name,
               !.resource_group_name = k.resourceGroup,
               !.automation_account_name = k.accountName,
               !.description = rs.description,
               !.encrypted = rs.isEncrypted]

\* lines 120-153, the body of Read, entered by the handler `run` that has
\* issued the calls `before`: parse the id, Get, and lay the answer over the data
ReadBody(r, run, before) ==
    LET p == ParseResourceId(d[r].id)
        done(err) == [run EXCEPT !.err = err]
    IN  /\ pc' = [pc EXCEPT ![r] = "idle"]
        /\ IF ParseFailed(p)
           THEN /\ result' = [result EXCEPT ![r] = done("MalformedIdentifier")]
                /\ calls' = [calls EXCEPT ![r] = before]
                /\ resp' = [resp EXCEPT ![r] = NoResp]
                /\ d' = d
           ELSE \E rs \in GetResponses(p.key) :
                /\ resp' = [resp EXCEPT ![r] = rs]
                /\ calls' = [calls EXCEPT ![r] = Append(before, "Get")]
                /\ IF ResponseWasNotFound(rs)
                   THEN /\ d' = [d EXCEPT ![r] = RemovedData(d[r])]
                        /\ result' = [result EXCEPT ![r] = done("nil")]
                   ELSE IF rs.kind = "error"
                   THEN /\ d' = [d EXCEPT ![r] = FailedData(d[r])]
                        /\ result' = [result EXCEPT ![r] = done("ReadFailed")]
                   ELSE LET keyed == Keyed(d[r], rs, p.key)
                            val == ParseAzureRmAutomationVariableValue(rs.value)
                        IN  IF keyed.encrypted
                            THEN /\ d' = [d EXCEPT ![r] = EncryptedData(keyed)]
                                 /\ result' = [result EXCEPT ![r] = done("nil")]
                            ELSE IF ~val.ok
                            THEN /\ d' = [d EXCEPT ![r] = keyed]
                                 /\ result' = [result EXCEPT ![r] = done("ValueDecodeError")]
                            ELSE /\ d' = [d EXCEPT ![r] =
                                        [keyed EXCEPT !.value = FormatValue(val.time)]]
                                 /\ result' = [result EXCEPT ![r] = done("nil")]

\* line 113: create-or-update ends in Read
CreateUpdateRead(r) ==
    /\ pc[r] = "read"
    /\ ReadBody(r, result[r], calls[r])
    /\ written' = Settle(r, result'[r].err)
    /\ UNCHANGED <<requireResourcesToBeImported, remote, key, codec>>

\* lines 116-154: Read (a refresh) of a tracked resource
Read(r) ==
    /\ pc[r] = "idle"
    /\ d[r].id # NoId
    /\ ReadBody(r, Running("read", FALSE), <<>>)
    /\ UNCHANGED <<requireResourcesToBeImported, remote, key, written, codec>>

\* client.Delete(ctx, resourceGroup, accountName, name): the answers it may
\* give; like Get, the client reports not-found as an error carrying the
\* response
DeleteResponses(k) ==
    IF k \in RemoteKeys /\ remote[k].present THEN {"deleted", "error"}
    ELSE {"notfound", "error"}

\* a Delete that returns nil whatever the client returned
DeleteSucceededAlways(answer) == TRUE

\* line 168: Delete is taken to have worked when the client returns no error;
\* the response is not looked at
DeleteSucceeded(answer) == answer = "deleted"

\* lines 156-173: Delete of a tracked resource
Delete(r) ==
    LET p == ParseResourceId(d[r].id)
        done(err) == [Running("delete", FALSE) EXCEPT !.err = err]
    IN  /\ pc[r] = "idle"
        /\ d[r].id # NoId
        /\ IF ParseFailed(p)
           THEN /\ result' = [result EXCEPT ![r] = done("MalformedIdentifier")]
                /\ calls' = [calls EXCEPT ![r] = <<>>]
                /\ resp' = [resp EXCEPT ![r] = NoResp]
                /\ UNCHANGED <<remote, written>>
           ELSE \E answer \in DeleteResponses(p.key) :
                /\ calls' = [calls EXCEPT ![r] = <<"Delete">>]
                /\ resp' = [resp EXCEPT ![r] = [NoResp EXCEPT !.kind = answer]]
                /\ result' = [result EXCEPT ![r] =
                       done(IF DeleteSucceeded(answer) THEN "nil" ELSE "DeleteFailed")]
                /\ IF answer = "deleted"
                   THEN /\ remote' = [remote EXCEPT ![p.key] = Absent]
                        /\ written' = Disturb(p.key, "none")
                   ELSE UNCHANGED <<remote, written>>
        /\ UNCHANGED <<requireResourcesToBeImported, key, d, pc, codec>>

\* lines 23-25, schema.ImportStatePassthrough: the resource's data are made
\* of the identifier given and nothing else; the Read that follows completes
\* the import
ImportState(r, id) ==
    /\ pc[r] = "idle"
    /\ d[r].id = NoId
    /\ d' = [d EXCEPT ![r] = [EmptyData EXCEPT !.id = id]]
    /\ result' = [result EXCEPT ![r] = [Running("import", FALSE) EXCEPT !.err = "nil"]]
    /\ calls' = [calls EXCEPT ![r] = <<>>]
    /\ resp' = [resp EXCEPT ![r] = NoResp]
    /\ UNCHANGED <<requireResourcesToBeImported, remote, key, pc, written, codec>>

\* the framework forgets a resource whose Delete returned no error
Forget(r) ==
    /\ pc[r] = "idle"
    /\ result[r].op = "delete" /\ result[r].err = "nil"
    /\ d[r].id # NoId
    /\ d' = [d EXCEPT ![r] = EmptyData]
    /\ UNCHANGED <<requireResourcesToBeImported, remote, key, pc, result, calls, resp,
                   written, codec>>

\* ------------------------------------------------------------------ other writers

\* someone outside the provider stores an object at k
ForeignPut(k, o) ==
    /\ remote[k] # o
    /\ remote' = [remote EXCEPT ![k] = o]
    /\ written' = Disturb(k, "none")
    /\ UNCHANGED <<requireResourcesToBeImported, key, d, pc, result, calls, resp, codec>>

\* someone outside the provider deletes the object at k
ForeignDelete(k) ==
    /\ remote[k].present
    /\ remote' = [remote EXCEPT ![k] = Absent]
    /\ written' = Disturb(k, "none")
    /\ UNCHANGED <<requireResourcesToBeImported, key, d, pc, result, calls, resp, codec>>

\* ------------------------------------------------------------------ specification

CodecOff == [phase |-> "off", input |-> EmptyText, token |-> OtherToken, output |-> EmptyText]

InitHandlers ==
    /\ remote = [k \in RemoteKeys |-> Absent]
    /\ key = [r \in Res |-> IF r = "r1" THEN Key("v1") ELSE Key("v2")]
    /\ d = [r \in Res |-> EmptyData]
    /\ pc = [r \in Res |-> "idle"]
    /\ result = [r \in Res |-> [Running("none", FALSE) EXCEPT !.err = "nil"]]
    /\ calls = [r \in Res |-> <<>>]
    /\ resp = [r \in Res |-> NoResp]
    /\ written = [r \in Res |-> NeverWritten]

Init ==
    /\ requireResourcesToBeImported \in BOOLEAN
    /\ InitHandlers
    /\ codec = CodecOff

\* one resource and the key it names, with other writers at that key
Next ==
    \/ \E c \in Configs : CreateUpdateBegin("r1", c)
    \/ CreateUpdateProbe("r1")
    \/ CreateUpdateWrite("r1")
    \/ CreateUpdateGet("r1")
    \/ CreateUpdateRead("r1")
    \/ Read("r1")
    \/ Delete("r1")
    \/ Forget("r1")
    \/ \E o \in ForeignObjects : ForeignPut(Key("v1"), o)
    \/ ForeignDelete(Key("v1"))

Spec == Init /\ [][Next]_vars

\* ------------------------------------------------------------------ the codec alone

\* the longest fraction of a second among the timestamps tried
MaxFracDigits == 4

RECURSIVE FracsOfLen(_)
FracsOfLen(n) ==
    IF n = 0 THEN {<<>>}
    ELSE {Append(f, dg) : f \in FracsOfLen(n - 1), dg \in {0, 9}}

Fracs == UNION {FracsOfLen(n) : n \in 0..MaxFracDigits}

\* the timestamp strings tried: years across the range RFC 3339 admits, the
\* first and last instants of a day, fractions with and without trailing zeros,
\* UTC and two offsets; February 30th is among them and is not a date
Timestamps ==
    {Stamp(y, md[1], md[2], hms[1], hms[2], hms[3], f, z) :
        y \in {1, 1677, 1969, 1970, 2023, 2262, 2300, 9999},
        md \in {<<1, 2>>, <<2, 30>>, <<12, 31>>},
        hms \in {<<0, 0, 0>>, <<15, 4, 5>>, <<23, 59, 59>>},
        f \in Fracs,
        z \in {Zulu, Offset(1, 1, 0), Offset(-1, 5, 30)}}

InitCodec ==
    /\ requireResourcesToBeImported = FALSE
    /\ InitHandlers
    /\ codec \in {[phase |-> "input", input |-> v, token |-> OtherToken, output |-> EmptyText] :
                    v \in Timestamps}

\* lines 85-89: the value is parsed and wrapped, or refused
CodecEncode ==
    /\ codec.phase = "input"
    /\ codec' = IF ParseOK(codec.input)
                THEN [codec EXCEPT !.phase = "encoded", !.token = EncodeValue(codec.input)]
                ELSE [codec EXCEPT !.phase = "refused"]
    /\ UNCHANGED mainVars

\* lines 145-149: the stored token is unwrapped and rendered
CodecDecode ==
    /\ codec.phase = "encoded"
    /\ LET val == ParseAzureRmAutomationVariableValue(codec.token)
       IN  codec' = IF val.ok
                    THEN [codec EXCEPT !.phase = "decoded", !.output = FormatValue(val.time)]
                    ELSE [codec EXCEPT !.phase = "undecodable"]
    /\ UNCHANGED mainVars

NextCodec == CodecEncode \/ CodecDecode

SpecCodec == InitCodec /\ [][NextCodec]_vars

\* ------------------------------------------------------------------ import

\* the identifier of v1 without its variables/{name} segment
NoVariablesId == SubSeq(CanonicalId(Key("v1")), 1, 8)

\* the identifier of v1 without its automationAccounts/{accountName} segment
NoAccountId ==
    <<"subscriptions", "sub", "resourceGroups", "rg",
      "providers", "Microsoft.Automation", "variables", "v1">>

\* the identifiers handed to import: that of v1, that of v2 (which nobody
\* creates), and two that lack a segment
ImportIds == {CanonicalId(Key("v1")), CanonicalId(Key("v2")), NoVariablesId, NoAccountId}

\* the configurations r1 creates v1 from, for r2 to import
ImportConfigs ==
    {Config("d", FALSE, T2023Offset), Config("", TRUE, T2023Offset),
     Config("d", FALSE, T2300)}

\* r1 creates and updates v1; r2, which has no configuration of its own, is
\* handed identifiers by import and runs Read and Delete on them
NextImport ==
    \/ \E c \in ImportConfigs : CreateUpdateBegin("r1", c)
    \/ CreateUpdateProbe("r1")
    \/ CreateUpdateWrite("r1")
    \/ CreateUpdateGet("r1")
    \/ CreateUpdateRead("r1")
    \/ \E id \in ImportIds : ImportState("r2", id)
    \/ Read("r2")
    \/ Delete("r2")
    \/ Forget("r2")

SpecImport == Init /\ [][NextImport]_vars

\* ------------------------------------------------------------------ two identities

\* the configurations the two resources are given
PairConfigs == {Config("d", FALSE, T2023), Config("", TRUE, T2023Offset)}

\* r1 manages v1 and r2 manages v2; their handlers run concurrently, one
\* client call at a time, in any order
NextPair ==
    \E r \in Res :
        \/ \E c \in PairConfigs : CreateUpdateBegin(r, c)
        \/ CreateUpdateProbe(r)
        \/ CreateUpdateWrite(r)
        \/ CreateUpdateGet(r)
        \/ CreateUpdateRead(r)
        \/ Read(r)
        \/ Delete(r)
        \/ Forget(r)

SpecPair == Init /\ [][NextPair]_vars

\* ------------------------------------------------------------------ one identity, two resources

\* the configurations of the two resources, told apart by their description
RaceConfigs == {Config("d", FALSE, T2023), Config("", FALSE, T2023Offset)}

\* both resources name v1 and the import guard is enabled
InitRace ==
    /\ requireResourcesToBeImported = TRUE
    /\ remote = [k \in RemoteKeys |-> Absent]
    /\ key = [r \in Res |-> Key("v1")]
    /\ d = [r \in Res |-> EmptyData]
    /\ pc = [r \in Res |-> "idle"]
    /\ result = [r \in Res |-> [Running("none", FALSE) EXCEPT !.err = "nil"]]
    /\ calls = [r \in Res |-> <<>>]
    /\ resp = [r \in Res |-> NoResp]
    /\ written = [r \in Res |-> NeverWritten]
    /\ codec = CodecOff

\* the handlers of the two resources run concurrently, one client call at a
\* time, in any order
NextRace ==
    \E r \in Res :
        \/ \E c \in RaceConfigs : CreateUpdateBegin(r, c)
        \/ CreateUpdateProbe(r)
        \/ CreateUpdateWrite(r)
        \/ CreateUpdateGet(r)
        \/ CreateUpdateRead(r)
        \/ Delete(r)
        \/ Forget(r)

SpecRace == InitRace /\ [][NextRace]_vars

\* ------------------------------------------------------------------ properties

\* the handler of r that is running or ran last is create-or-update
IsCreateUpdate(r) == result[r].op \in {"create", "update"}

\* r's last create-or-update returned no error, the resource is tracked, and
\* nobody else has written or deleted at its key since
Undisturbed(r) ==
    /\ pc[r] = "idle"
    /\ result[r].op \in {"create", "update", "read"}
    /\ result[r].err = "nil"
    /\ d[r].id # NoId
    /\ written[r].valid /\ written[r].clean /\ written[r].settled

\* a nanosecond count in whole milliseconds, rounded down
FloorMillis(n) == [days |-> n.days, sod |-> n.sod, sub |-> n.sub \div NanosPerMilli]

\* the timestamp strings a and b name the same instant, to the millisecond
SameInstantMs(a, b) ==
    /\ ParseOK(a) /\ ParseOK(b)
    /\ FloorMillis(ParseInstant(a)) = FloorMillis(ParseInstant(b))

\* the step is the probing Get of r's create-or-update
ProbeStep(r) == pc[r] = "probe" /\ calls'[r] # calls[r]

C2_UpdateNeverAlreadyExists ==
    \A r \in Res :
        (result[r].op = "update" /\ result[r].managed) => result[r].err # "AlreadyExists"

\* C3: a Delete whose client call answers not-found returns no error.
C3_DeleteNotFoundIsSuccess ==
    \A r \in Res :
        (result[r].op = "delete" /\ resp[r].kind = "notfound") => result[r].err = "nil"

\* C4: after a successful create-or-update of an unencrypted variable, with no
\* other writer, the data the handler's Read (and any later Read) leaves hold
\* the configured description and encrypted flag and a value naming the
\* configured instant, to the millisecond.
C4_CreateThenReadConsistent ==
    \A r \in Res :
        (Undisturbed(r) /\ ~written[r].encrypted)
        => /\ d[r].description = written[r].description
           /\ d[r].encrypted = written[r].encrypted
           /\ SameInstantMs(d[r].value, written[r].value)

\* C5: after any run of successful create-or-updates of one variable, with no
\* other writer, Read leaves exactly the last configuration's description,
\* encrypted flag and value (its instant), nothing of an earlier one; a
\* configuration without description reads back with the empty description.
C5_FullReplacement ==
    \A r \in Res :
        Undisturbed(r)
        => /\ d[r].description = written[r].description
           /\ d[r].encrypted = written[r].encrypted
           /\ ParseOK(d[r].value)
           /\ FloorMillis(ParseInstant(d[r].value)) = FloorMillis(ParseInstant(written[r].value))
           /\ (written[r].description = "" => d[r].description = "")

\* r's create-or-update of an encrypted variable has returned no error and its
\* Read saw the variable encrypted
EncryptedCreated(r) ==
    /\ pc[r] = "idle" /\ IsCreateUpdate(r) /\ result[r].err = "nil"
    /\ d[r].id # NoId
    /\ written[r].encrypted /\ d[r].encrypted

\* C6 as claimed: after a successful create-or-update with encrypted = true
\* the data hold no value at all.
C6_EncryptedValueAbsent ==
    \A r \in Res : EncryptedCreated(r) => d[r].value = EmptyText

\* C6 as amended: after a successful create-or-update with encrypted = true
\* the Read has decoded nothing and has not set the value: whatever the store
\* holds, the data's value is the string the configuration supplied, as
\* supplied.
C6_EncryptedValueUntouched ==
    \A r \in Res : EncryptedCreated(r) => d[r].value = written[r].value

C6_Witness ==
    \E r \in Res :
        /\ EncryptedCreated(r)
        /\ d[r].value = T2023Offset
        /\ remote[key[r]] = Object("foreign", TRUE, OtherToken)

\* v cut to millisecond granularity as text: its first three fractional
\* digits, everything else as written
TruncText(v) ==
    [v EXCEPT !.frac = IF Len(v.frac) > 3 THEN SubSeq(v.frac, 1, 3) ELSE v.frac]

\* v is written the way Read renders: in UTC, with at most three fractional
\* digits and no trailing zero among them
CanonicalText(v) ==
    /\ v.zone = Zulu
    /\ Len(v.frac) <= 3
    /\ TrimZeros(v.frac) = v.frac

\* C7: the string decoded from the encoding of an accepted timestamp equals
\* that timestamp cut to milliseconds -- stated for the timestamps already
\* written in the rendered form (UTC, at most three fractional digits, no
\* trailing zero), for which the claim's "same instant" and "same textual
\* form" both come to: the string comes back as it went in.
C7_RoundTrip ==
    (codec.phase = "decoded" /\ CanonicalText(codec.input))
    => codec.output = TruncText(codec.input)

\* C8 as claimed: every decoded timestamp is rendered with exactly three
\* fractional digits and the suffix Z; "2023-01-02T15:04:05Z" comes back as
\* "2023-01-02T15:04:05.000Z".
C8_ThreeFractionDigits ==
    codec.phase = "decoded"
    => /\ Len(codec.output.frac) = 3
       /\ codec.output.zone = Zulu
       /\ (codec.input = T2023 => codec.output = [T2023 EXCEPT !.frac = <<0, 0, 0>>])

\* C8 as amended: every decoded timestamp is rendered with the millisecond
\* digits of the stored value less their trailing zeros (none, and no point,
\* when the milliseconds are zero) and the suffix Z;
\* "2023-01-02T15:04:05Z" comes back as "2023-01-02T15:04:05Z".
C8_TrimmedFractionDigits ==
    codec.phase = "decoded"
    => /\ Len(codec.output.frac) <= 3
       /\ TrimZeros(codec.output.frac) = codec.output.frac
       /\ FracNanos(codec.output.frac, 100000000) = codec.token.ms.sub * NanosPerMilli
       /\ codec.output.zone = Zulu
       /\ (codec.input = T2023 => codec.output = T2023)

C8_Witness ==
    /\ codec.phase = "decoded"
    /\ codec.input = T2023
    /\ codec.token = DateToken([days |-> 19359, sod |-> 54245, sub |-> 0])
    /\ codec.output = T2023

\* C9: the integer in the Date(<ms>) wrapper is the timestamp's offset from
\* the Unix epoch in whole milliseconds (rounded either way when the
\* timestamp has digits below the millisecond); for "2023-01-02T15:04:05Z" it
\* is 1672671845000 = (19359 * 86400 + 54245) * 1000.
C9_EpochMillis ==
    codec.phase \in {"encoded", "decoded"}
    => /\ codec.token.kind = "Date"
       /\ codec.token.ms \in {FloorMillis(ParseInstant(codec.input)),
                              DivMillion(ParseInstant(codec.input))}
       /\ (codec.input = T2023
             => codec.token.ms = [days |-> 19359, sod |-> 54245, sub |-> 0])

\* the step is the body of Read run for r, by Read itself or at the end of
\* create-or-update
ReadStep(r) ==
    \/ pc[r] = "read" /\ pc'[r] = "idle"
    \/ pc[r] = "idle" /\ pc'[r] = "idle" /\ result'[r].op = "read" /\ remote' = remote

\* C10: a Read whose Get answers not-found clears the local id, sets no other
\* field, returns no error and makes no other call; a Read whose Get fails
\* otherwise returns an error and leaves the data, the id with them, as they
\* were.
C10_ReadOfRemovedObject ==
    [][\A r \in Res :
         /\ (ReadStep(r) /\ resp'[r].kind = "notfound")
            => /\ d'[r] = [d[r] EXCEPT !.id = NoId]
               /\ result'[r].err = "nil"
               /\ calls'[r] = Append(IF pc[r] = "read" THEN calls[r] ELSE <<>>, "Get")
         /\ (ReadStep(r) /\ resp'[r].kind = "error")
            => /\ d'[r] = d[r]
               /\ result'[r].err = "ReadFailed"
               /\ calls'[r] = Append(IF pc[r] = "read" THEN calls[r] ELSE <<>>, "Get")]_vars

C10_Witness ==
    \E r \in Res :
        /\ pc[r] = "idle" /\ result[r].op = "read" /\ result[r].err = "nil"
        /\ resp[r].kind = "notfound" /\ calls[r] = <<"Get">>
        /\ d[r].id = NoId /\ d[r].name = key[r].name /\ ParseOK(d[r].value)

\* C11: Read and Delete (and so import, which is ImportStatePassthrough and
\* then Read) run on a local id that lacks a required segment return
\* MalformedIdentifier having made no client call, and change neither the
\* store nor the data.
C11_MalformedIdentifier ==
    [][\A r \in Res :
         (/\ pc[r] = "idle" /\ pc'[r] = "idle"
          /\ d[r].id # NoId /\ ~ParseResourceId(d[r].id).ok
          /\ result'[r] # result[r])
         => /\ result'[r].op \in {"read", "delete"}
            /\ result'[r].err = "MalformedIdentifier"
            /\ calls'[r] = <<>>
            /\ remote' = remote
            /\ d'[r] = d[r]]_vars

C11_Witness ==
    \E r \in Res :
        /\ d[r].id = NoVariablesId
        /\ pc[r] = "idle" /\ result[r].op = "delete"
        /\ result[r].err = "MalformedIdentifier"
        /\ calls[r] = <<>>
        /\ remote[Key("v1")].present

\* the step is the Read that completes r's import of the variable q manages,
\* and it returns no error
ImportReadStep(r, q) ==
    /\ r # q
    /\ result[r].op = "import" /\ result'[r].op = "read" /\ result'[r].err = "nil"
    /\ Undisturbed(q)
    /\ d[r].id = d[q].id

\* C13 as claimed: the data import leaves for a variable equal, field for
\* field, the data its create-or-update left.
C13_ImportEqualsCreated ==
    [][\A r, q \in Res : ImportReadStep(r, q) => d'[r] = d[q]]_vars

\* C13 as amended: they agree on id, name, resource group, account name,
\* description and encrypted flag, and on the value when the variable is not
\* encrypted; of an encrypted variable import leaves no value, where
\* create-or-update left the configured one.
C13_ImportEqualsCreatedButSecret ==
    [][\A r, q \in Res :
         ImportReadStep(r, q)
         => /\ [d'[r] EXCEPT !.value = EmptyText] = [d[q] EXCEPT !.value = EmptyText]
            /\ (~d[q].encrypted => d'[r].value = d[q].value)
            /\ (d[q].encrypted => d'[r].value = EmptyText /\ d[q].value = written[q].value)]_vars

C13_Witness ==
    /\ Undisturbed("r1")
    /\ pc["r2"] = "idle" /\ result["r2"].op = "read" /\ result["r2"].err = "nil"
    /\ calls["r2"] = <<"Get">>
    /\ d["r2"] = d["r1"]
    /\ d["r2"].description = "d" /\ ParseOK(d["r2"].value)

\* the step is one of r's create-or-update entered, with the import guard
\* disabled, as the update of the variable r manages, with the configuration
\* r's last create-or-update stored
RepeatStep(r) ==
    /\ ~requireResourcesToBeImported
    /\ result[r].op = "update" /\ result[r].managed
    /\ \/ pc[r] = "write" /\ SameSpec(r)
       \/ pc[r] \in {"get", "read"} /\ written[r].again /\ written[r].clean
    /\ pc'[r] # pc[r]

\* C12: with the import guard disabled, a create-or-update run again with the
\* configuration of the successful one before it leaves the store as it was
\* (the one object, with the configured description, encrypted flag and
\* encoded value) and the local id as it was, and returns no error unless
\* one of its client calls fails or echoes no id.
C12_IdempotentCreateUpdate ==
    [][\A r \in Res :
         RepeatStep(r)
         => /\ remote' = remote
            /\ remote'[key[r]] =
                  Object(written'[r].description, written'[r].encrypted,
                         EncodeValue(written'[r].value))
            /\ d'[r].id = d[r].id
            /\ d'[r].id = CanonicalId(key[r])
            /\ (resp'[r].kind \notin {"error"} /\ ~(pc[r] = "get" /\ resp'[r].id = NoId))
                 => result'[r].err \in {"running", "nil"}]_vars

C12_Witness ==
    \E r \in Res :
        /\ ~requireResourcesToBeImported
        /\ pc[r] = "idle" /\ result[r].op = "update" /\ result[r].managed
        /\ result[r].err = "nil"
        /\ written[r].again /\ written[r].clean /\ written[r].settled
        /\ written[r].description = "d"
        /\ remote[key[r]] = Object("d", written[r].encrypted, EncodeValue(written[r].value))
        /\ d[r].id = CanonicalId(key[r])

\* all that r's handlers read or write: the object stored at r's identity,
\* r's data, and the course and outcome of r's handler
View(r) == <<remote[key[r]], d[r], pc[r], result[r], calls[r], resp[r], written[r]>>

\* C14: with two resources at two identities and their handlers interleaved
\* call by call, every client call of a handler is keyed by its own identity,
\* and a step of one resource's handler leaves untouched all that the other
\* resource's handlers read or write -- the object at its identity, its
\* data and local id, its handler's course and result -- so each operation
\* runs as it would with the other resource idle.
C14_DifferentIdentitiesIndependent ==
    [][\A r \in Res : \A q \in Res \ {r} :
         /\ (d[r].id # NoId => ParseResourceId(d[r].id).key = key[r])
         /\ (<<pc[q], result[q], calls[q], d[q]>>' # <<pc[q], result[q], calls[q], d[q]>>
               => View(r)' = View(r))]_vars

C14_Witness ==
    /\ pc["r1"] = "get" /\ result["r1"].op = "create"
    /\ pc["r2"] = "idle" /\ result["r2"].op = "delete" /\ result["r2"].err = "nil"
    /\ remote[Key("v1")].present /\ ~remote[Key("v2")].present
    /\ d["r1"].id = NoId /\ d["r2"].id = CanonicalId(Key("v2"))

\* C15: a create-or-update that has returned no error has left the data
\* with the canonical id of the object it wrote.
C15_SuccessCarriesId ==
    \A r \in Res :
        (pc[r] = "idle" /\ IsCreateUpdate(r) /\ result[r].err = "nil")
        => d[r].id = CanonicalId(key[r])

\* C16: when the Get that follows a successful CreateOrUpdate call answers
\* with an object that has no id, create-or-update returns IncompleteWrite
\* there and then: the data, the local id with them, stay as they were, and
\* the one CreateOrUpdate and the one Get after it are the last calls made.
C16_IncompleteWrite ==
    [][\A r \in Res :
         (pc[r] = "get" /\ pc'[r] # pc[r]
          /\ resp'[r].kind = "found" /\ resp'[r].id = NoId)
         => /\ pc'[r] = "idle"
            /\ result'[r].err = "IncompleteWrite"
            /\ d'[r] = d[r]
            /\ remote' = remote
            /\ calls'[r] \in {<<"CreateOrUpdate", "Get">>, <<"Get", "CreateOrUpdate", "Get">>}]_vars

C16_Witness ==
    \E r \in Res :
        /\ pc[r] = "idle" /\ result[r].op = "create"
        /\ result[r].err = "IncompleteWrite"
        /\ resp[r].kind = "found" /\ resp[r].id = NoId
        /\ calls[r] = <<"CreateOrUpdate", "Get">>
        /\ remote[key[r]].present
        /\ d[r].id = NoId

\* the configured values that are not RFC-3339 timestamps
Unparseable == {EmptyText, TFeb30}

\* C17 as claimed: a create-or-update given a value that is not an RFC-3339
\* timestamp (the empty value included) returns InvalidTimeFormat and has
\* not called CreateOrUpdate -- no client call of its own having failed or
\* echoed an object without id.
C17_InvalidValueIsInvalidTimeFormat ==
    \A r \in Res :
        (/\ pc[r] = "idle" /\ IsCreateUpdate(r) /\ d[r].value \in Unparseable
         /\ resp[r].kind # "error"
         /\ ~(resp[r].kind = "found" /\ resp[r].id = NoId))
        => /\ result[r].err = "InvalidTimeFormat"
           /\ \A i \in 1..Len(calls[r]) : calls[r][i] # "CreateOrUpdate"

\* C17 as amended: a create-or-update given such a value never calls
\* CreateOrUpdate and changes neither the store nor the data; it returns
\* InvalidTimeFormat when it reaches the encoding, which with the import
\* guard enabled comes after the probing Get, whose outcome may already have
\* ended it.
C17_InvalidValueBlocksWrite ==
    [][\A r \in Res :
         (IsCreateUpdate(r) /\ pc[r] \in {"probe", "write"}
          /\ d[r].value \in Unparseable /\ pc'[r] # pc[r])
         => /\ remote' = remote
            /\ d'[r] = d[r]
            /\ \A i \in 1..Len(calls'[r]) : calls'[r][i] # "CreateOrUpdate"
            /\ pc[r] = "write"
                 => /\ pc'[r] = "idle"
                    /\ result'[r].err = "InvalidTimeFormat"
                    /\ calls'[r] = calls[r]
            /\ pc[r] = "probe"
                 => \/ pc'[r] = "write" /\ result'[r].err = "running"
                    \/ /\ pc'[r] = "idle"
                       /\ result'[r].err \in {"AlreadyExists", "CheckExistingFailed", "panic"}]_vars

C17_Witness ==
    \E r \in Res :
        /\ pc[r] = "idle" /\ result[r].op = "create"
        /\ result[r].err = "InvalidTimeFormat"
        /\ d[r].value = TFeb30
        /\ calls[r] = <<"Get">>
        /\ ~remote[key[r]].present
        /\ d[r].id = NoId

\* the step is one of r's handlers
HandlerStep(r) ==
    <<pc[r], result[r], calls[r], resp[r]>>' # <<pc[r], result[r], calls[r], resp[r]>>

\* C18: whenever a client call of create-or-update, Read or Delete fails
\* (not-found apart), the handler returns an error at that step, that call
\* being the last it makes.
C18_NoSwallowedErrors ==
    [][\A r \in Res :
         (HandlerStep(r) /\ calls'[r] # <<>> /\ resp'[r].kind = "error")
         => /\ pc'[r] = "idle"
            /\ result'[r].err \in {"CheckExistingFailed", "CreateFailed", "RetrieveFailed",
                                    "ReadFailed", "DeleteFailed"}
            /\ Len(calls'[r]) = 1 + (IF pc[r] = "idle" THEN 0 ELSE Len(calls[r]))
            /\ remote' = remote
            /\ d'[r] = d[r]]_vars

C18_Witness ==
    \E r \in Res :
        /\ pc[r] = "idle" /\ result[r].op = "create"
        /\ result[r].err = "RetrieveFailed"
        /\ resp[r].kind = "error"
        /\ calls[r] = <<"Get", "CreateOrUpdate", "Get">>

\* the step is r's CreateOrUpdate call
WriteCallStep(r) == pc[r] = "write" /\ calls'[r] # calls[r]

\* C19 as claimed: with the import guard enabled, no CreateOrUpdate call of
\* a resource lands on an object the resource did not itself store, and of
\* two creates of one identity at most one returns no error.
C19_GuardHoldsUnderInterleaving ==
    [][\A r \in Res :
         /\ (requireResourcesToBeImported /\ WriteCallStep(r) /\ remote[key[r]].present)
              => written[r].valid /\ written[r].clean
         /\ \A q \in Res \ {r} :
              ~(/\ requireResourcesToBeImported /\ key[r] = key[q]
                /\ pc'[r] = "idle" /\ result'[r].op = "create" /\ result'[r].err = "nil"
                /\ pc'[q] = "idle" /\ result'[q].op = "create" /\ result'[q].err = "nil")]_vars

\* C19 as amended: with the import guard enabled, a resource calls
\* CreateOrUpdate only after its own probing Get, the one call before it,
\* answered not-found; what is stored at the identity after that answer is
\* not looked at again.
C19_GuardCoversOnlyTheProbe ==
    [][\A r \in Res :
         (requireResourcesToBeImported /\ WriteCallStep(r))
         => /\ calls[r] = <<"Get">>
            /\ resp[r].kind = "notfound"]_vars

C19_Witness ==
    /\ requireResourcesToBeImported
    /\ pc["r1"] = "idle" /\ result["r1"].op = "create" /\ result["r1"].err = "nil"
    /\ pc["r2"] = "idle" /\ result["r2"].op = "create" /\ result["r2"].err = "nil"
    /\ written["r1"].valid /\ ~written["r1"].clean /\ written["r1"].description = "d"
    /\ remote[Key("v1")].description = ""
    /\ d["r1"].id = CanonicalId(Key("v1")) /\ d["r2"].id = CanonicalId(Key("v1"))

\* the errors create-or-update returns before it has set the id
EarlyErrors ==
    {"CheckExistingFailed", "AlreadyExists", "InvalidTimeFormat", "CreateFailed",
     "RetrieveFailed", "IncompleteWrite"}

\* the errors of the Read that ends create-or-update
RefreshErrors == {"MalformedIdentifier", "ReadFailed", "ValueDecodeError"}

\* C20 as claimed: a create-or-update that has returned an error has left
\* the local id as it found it: none after a create, the variable's own
\* after an update.
C20_FailureLeavesIdUntouched ==
    \A r \in Res :
        (pc[r] = "idle" /\ IsCreateUpdate(r) /\ result[r].err \in EarlyErrors \cup RefreshErrors)
        => d[r].id = (IF result[r].op = "create" THEN NoId ELSE CanonicalId(key[r]))

\* C20 as amended: a create-or-update that returns an error from the guard
\* probe, the encoding, the CreateOrUpdate call, the Get after it or the
\* missing id has left the local id as it found it; one whose closing Read
\* returns the error has the id set already, to that of the object written,
\* after a create too.
C20_FailureBeforeSetIdLeavesId ==
    \A r \in Res :
        (pc[r] = "idle" /\ IsCreateUpdate(r))
        => /\ result[r].err \in EarlyErrors
               => d[r].id = (IF result[r].op = "create" THEN NoId ELSE CanonicalId(key[r]))
           /\ result[r].err \in RefreshErrors
               => /\ d[r].id = CanonicalId(key[r])
                  /\ Len(calls[r]) >= 3
                  /\ SubSeq(calls[r], Len(calls[r]) - 2, Len(calls[r]))
                       = <<"CreateOrUpdate", "Get", "Get">>

C20_Witness ==
    \E r \in Res :
        /\ pc[r] = "idle" /\ result[r].op = "create"
        /\ result[r].err = "ValueDecodeError"
        /\ d[r].id = CanonicalId(key[r])
        /\ remote[key[r]] = Object("foreign", FALSE, OtherToken)

====
